---- MODULE Spec2Model ----
(***************************************************************************)
(* FinBot (src/FinBot.py): a Telegram bot that parses free-text expense    *)
(* messages, appends them to a Google Sheets spreadsheet and answers the   *)
(* /total and /categoria summary commands.                                 *)
(*                                                                         *)
(* Text is modelled as a sequence of one-character strings, so that the    *)
(* regular expressions, str.lower(), str.title() and the substring tests   *)
(* of the source are computed character by character.  An amount is the    *)
(* exact decimal the float of the source stands for, held as the digits of *)
(* its integer part and of its fraction [int, frac], without leading and   *)
(* trailing zeros; stored amounts are in cents.                            *)
(***************************************************************************)
EXTENDS Integers, Sequences, FiniteSets, TLC

VARIABLES
    mensagem,       \* parse_mensagem: argument `mensagem`
    data_mensagem,  \* parse_mensagem: argument `data_mensagem`
    resultado,      \* parse_mensagem: the returned tuple (or the raised error)
    sheet,          \* the rows of sheet1 of the spreadsheet
    update_queue,   \* app.update_queue
    outbox,         \* the replies delivered to the user, in order
    registro,       \* one entry per update handled: what the handler did
    recebidos,      \* number of POST /webhook requests served so far
    http            \* status of the last /webhook response

vars == <<mensagem, data_mensagem, resultado, sheet, update_queue, outbox,
          registro, recebidos, http>>

parseVars == <<mensagem, data_mensagem, resultado>>
botVars == <<sheet, update_queue, outbox, registro, recebidos, http>>

-----------------------------------------------------------------------------
(* Characters                                                              *)

Digitos == <<"0", "1", "2", "3", "4", "5", "6", "7", "8", "9">>

Minusculas ==
    <<"a", "b", "c", "d", "e", "f", "g", "h", "i", "j", "k", "l", "m",
      "n", "o", "p", "q", "r", "s", "t", "u", "v", "w", "x", "y", "z",
      "ã", "ê">>

Maiusculas ==
    <<"A", "B", "C", "D", "E", "F", "G", "H", "I", "J", "K", "L", "M",
      "N", "O", "P", "Q", "R", "S", "T", "U", "V", "W", "X", "Y", "Z",
      "Ã", "Ê">>

Range(s) == {s[i] : i \in 1..Len(s)}

DigitSet == Range(Digitos)
LowerSet == Range(Minusculas)
UpperSet == Range(Maiusculas)

\* \d
IsDigit(c) == c \in DigitSet

\* [A-Za-zÀ-ÿ]
IsLetter(c) == c \in LowerSet \cup UpperSet

\* \s, for str.strip()
IsSpace(c) == c = " "

DigitVal(c) == (CHOOSE i \in 1..10 : Digitos[i] = c) - 1

\* str.lower() / str.upper() of one character
LowerChar(c) ==
    IF c \in UpperSet
    THEN Minusculas[CHOOSE i \in 1..Len(Maiusculas) : Maiusculas[i] = c]
    ELSE c

UpperChar(c) ==
    IF c \in LowerSet
    THEN Maiusculas[CHOOSE i \in 1..Len(Minusculas) : Minusculas[i] = c]
    ELSE c

\* str.lower()
Lower(s) == [i \in 1..Len(s) |-> LowerChar(s[i])]

\* str.title(): a letter that follows a non-letter is upper-cased, every
\* other letter is lower-cased
Title(s) ==
    [i \in 1..Len(s) |->
        IF i = 1 \/ ~IsLetter(s[i - 1]) THEN UpperChar(s[i]) ELSE LowerChar(s[i])]

\* str.capitalize(): first character upper-cased, the rest lower-cased
Capitalize(s) ==
    [i \in 1..Len(s) |-> IF i = 1 THEN UpperChar(s[i]) ELSE LowerChar(s[i])]

\* Python's `p in s` on strings: p occurs in s as a contiguous substring
MatchAt(p, s, i) ==
    /\ i + Len(p) - 1 <= Len(s)
    /\ \A j \in 1..Len(p) : s[i + j - 1] = p[j]

StrIn(p, s) == \E i \in 1..(Len(s) + 1) : MatchAt(p, s, i)

\* str.strip()
Strip(s) ==
    LET keep == {i \in 1..Len(s) : ~IsSpace(s[i])}
    IN  IF keep = {} THEN <<>>
        ELSE SubSeq(s, CHOOSE i \in keep : \A j \in keep : i <= j,
                       CHOOSE i \in keep : \A j \in keep : i >= j)

-----------------------------------------------------------------------------
(* parse_mensagem                                                          *)

\* the end of the run of digits that starts at position i
RECURSIVE DigitRunEnd(_, _)
DigitRunEnd(s, i) ==
    IF i + 1 <= Len(s) /\ IsDigit(s[i + 1]) THEN DigitRunEnd(s, i + 1) ELSE i

\* r"\d+(?:[.,]\d+)?" tried at position i: the end of the match, 0 if none
NumMatchEnd(s, i) ==
    IF ~IsDigit(s[i]) THEN 0
    ELSE LET e == DigitRunEnd(s, i)
         IN  IF e + 2 <= Len(s) /\ s[e + 1] \in {".", ","} /\ IsDigit(s[e + 2])
             THEN DigitRunEnd(s, e + 2)
             ELSE e

\* re.findall(r"\d+(?:[.,]\d+)?", s), scanning from position i
RECURSIVE FindallNum(_, _)
FindallNum(s, i) ==
    IF i > Len(s) THEN <<>>
    ELSE LET e == NumMatchEnd(s, i)
         IN  IF e = 0 THEN FindallNum(s, i + 1)
             ELSE <<SubSeq(s, i, e)>> \o FindallNum(s, e + 1)

\* str.replace(",", ".")
ReplaceComma(t) == [i \in 1..Len(t) |-> IF t[i] = "," THEN "." ELSE t[i]]

\* the integer written by a sequence of digits
RECURSIVE DigitsToInt(_)
DigitsToInt(t) ==
    IF t = <<>> THEN 0
    ELSE 10 * DigitsToInt(SubSeq(t, 1, Len(t) - 1)) + DigitVal(t[Len(t)])

\* digits without their leading / trailing zeros
RECURSIVE StripLeadingZeros(_)
StripLeadingZeros(t) ==
    IF t # <<>> /\ t[1] = "0" THEN StripLeadingZeros(Tail(t)) ELSE t

RECURSIVE StripTrailingZeros(_)
StripTrailingZeros(t) ==
    IF t # <<>> /\ t[Len(t)] = "0"
    THEN StripTrailingZeros(SubSeq(t, 1, Len(t) - 1))
    ELSE t

Zero == [int |-> <<>>, frac |-> <<>>]

\* float(t) for t = digits or digits "." digits: 007 and 7, 1.50 and 1.5 are
\* the same float
Float(t) ==
    LET dots == {i \in 1..Len(t) : t[i] = "."}
    IN  IF dots = {} THEN [int |-> StripLeadingZeros(t), frac |-> <<>>]
        ELSE LET p == CHOOSE i \in dots : TRUE
             IN  [int |-> StripLeadingZeros(SubSeq(t, 1, p - 1)),
                  frac |-> StripTrailingZeros(SubSeq(t, p + 1, Len(t)))]

\* lines 78-79 with valores[-1] in place of valores[0]
ValorUltimo(s) ==
    LET valores == FindallNum(s, 1)
    IN  IF valores # <<>> THEN Float(ReplaceComma(valores[Len(valores)])) ELSE Zero

\* lines 78-79
Valor(s) ==
    LET valores == FindallNum(s, 1)
    IN  IF valores # <<>> THEN Float(ReplaceComma(valores[1])) ELSE Zero

\* line 82
FormasPagamento ==
    << <<"c", "a", "r", "t", "ã", "o">>,
       <<"c", "a", "r", "t", "a", "o">>,
       <<"d", "i", "n", "h", "e", "i", "r", "o">>,
       <<"p", "i", "x">>,
       <<"t", "r", "a", "n", "s", "f", "e", "r", "ê", "n", "c", "i", "a">>,
       <<"t", "r", "a", "n", "s", "f", "e", "r", "e", "n", "c", "i", "a">>,
       <<"b", "o", "l", "e", "t", "o">> >>

\* lines 81-85 without the .lower() of line 83
RECURSIVE FormaLoopSensivel(_, _)
FormaLoopSensivel(s, k) ==
    IF k > Len(FormasPagamento) THEN <<>>
    ELSE IF StrIn(FormasPagamento[k], s) THEN FormasPagamento[k]
    ELSE FormaLoopSensivel(s, k + 1)

\* lines 81-85: the for loop over the vocabulary, from entry k on
RECURSIVE FormaLoop(_, _)
FormaLoop(s, k) ==
    IF k > Len(FormasPagamento) THEN <<>>
    ELSE IF StrIn(FormasPagamento[k], Lower(s)) THEN FormasPagamento[k]
    ELSE FormaLoop(s, k + 1)

FormaPagamento(s) == FormaLoop(s, 1)

\* the end of the run of letters that starts at position i
RECURSIVE LetterRunEnd(_, _)
LetterRunEnd(s, i) ==
    IF i + 1 <= Len(s) /\ IsLetter(s[i + 1]) THEN LetterRunEnd(s, i + 1) ELSE i

\* re.findall(r"[A-Za-zÀ-ÿ]+", s), scanning from position i
RECURSIVE FindallWords(_, _)
FindallWords(s, i) ==
    IF i > Len(s) THEN <<>>
    ELSE IF ~IsLetter(s[i]) THEN FindallWords(s, i + 1)
    ELSE LET e == LetterRunEnd(s, i)
         IN  <<SubSeq(s, i, e)>> \o FindallWords(s, e + 1)

\* line 88: the test that keeps a word
KeepWord(p, forma_pagamento) == ~StrIn(Lower(p), Lower(forma_pagamento))

Geral == <<"G", "e", "r", "a", "l">>

\* lines 87-89
Categoria(s, forma_pagamento) ==
    LET Keep(p) == KeepWord(p, forma_pagamento)
        palavras == SelectSeq(FindallWords(s, 1), Keep)
    IN  IF palavras # <<>> THEN palavras[1] ELSE Geral

\* r"(\d{2}/\d{2}/\d{4})" matches at position i
DateMatchAt(s, i) ==
    /\ i + 9 <= Len(s)
    /\ \A j \in {0, 1, 3, 4, 6, 7, 8, 9} : IsDigit(s[i + j])
    /\ s[i + 2] = "/"
    /\ s[i + 5] = "/"

\* re.search: the leftmost position where the pattern matches, 0 if none
DateSearch(s) ==
    LET hits == {i \in 1..Len(s) : DateMatchAt(s, i)}
    IN  IF hits = {} THEN 0 ELSE CHOOSE i \in hits : \A j \in hits : i <= j

IsLeap(y) == (y % 4 = 0 /\ y % 100 # 0) \/ y % 400 = 0

DaysIn(m, y) ==
    IF m = 2 THEN (IF IsLeap(y) THEN 29 ELSE 28)
    ELSE IF m \in {4, 6, 9, 11} THEN 30 ELSE 31

\* the fields datetime.strptime(t, "%d/%m/%Y") reads from a matched token
Strptime(t) ==
    [d |-> DigitsToInt(SubSeq(t, 1, 2)),
     m |-> DigitsToInt(SubSeq(t, 4, 5)),
     y |-> DigitsToInt(SubSeq(t, 7, 10))]

\* strptime raises ValueError unless the fields name a day of the calendar
StrptimeOk(t) ==
    LET f == Strptime(t)
    IN  /\ f.y >= 1
        /\ f.m \in 1..12
        /\ f.d \in 1..DaysIn(f.m, f.y)

\* datetime.date()
DateOf(ts) == [d |-> ts.d, m |-> ts.m, y |-> ts.y]

\* re.sub(r"\d+(?:[.,]\d+)?", "", s), scanning from position i
RECURSIVE SubNum(_, _)
SubNum(s, i) ==
    IF i > Len(s) THEN <<>>
    ELSE LET e == NumMatchEnd(s, i)
         IN  IF e = 0 THEN <<s[i]>> \o SubNum(s, i + 1)
             ELSE SubNum(s, e + 1)

\* re.sub(p, "", s, flags=re.IGNORECASE) for a pattern p of letters,
\* scanning from position i; an empty pattern removes nothing
RECURSIVE SubIgnoreCase(_, _, _)
SubIgnoreCase(p, s, i) ==
    IF i > Len(s) THEN <<>>
    ELSE IF p # <<>> /\ MatchAt(Lower(p), Lower(s), i)
    THEN SubIgnoreCase(p, s, i + Len(p))
    ELSE <<s[i]>> \o SubIgnoreCase(p, s, i + 1)

\* lines 97-100
Observacoes(s, categoria, forma_pagamento) ==
    Strip(SubIgnoreCase(forma_pagamento,
                        SubIgnoreCase(categoria, SubNum(s, 1), 1), 1))

NoDate == [d |-> 0, m |-> 0, y |-> 0]

\* what parse_mensagem yields when strptime raises
ParseError ==
    [ok |-> FALSE, valor |-> Zero, categoria |-> <<>>, data |-> NoDate,
     forma_pagamento |-> <<>>, observacoes |-> <<>>]

\* lines 76-102
parse_mensagem(s, ts) ==
    LET forma_pagamento == FormaPagamento(s)
        categoria == Categoria(s, forma_pagamento)
        at == DateSearch(s)
    IN  IF at # 0 /\ ~StrptimeOk(SubSeq(s, at, at + 9)) THEN ParseError
        ELSE [ok |-> TRUE,
              valor |-> Valor(s),
              categoria |-> categoria,
              data |-> IF at # 0 THEN Strptime(SubSeq(s, at, at + 9))
                       ELSE DateOf(ts),
              forma_pagamento |-> forma_pagamento,
              observacoes |-> Observacoes(s, categoria, forma_pagamento)]

-----------------------------------------------------------------------------
(* Inputs of the parser: messages made of at most MaxPecas pieces          *)

MaxPecas == 3

Pecas ==
    << <<" ">>,
       <<"M", "e", "r", "c", "a", "d", "o", " ">>,
       <<"P", "i">>,
       <<"P", "I", "X", " ">>,
       <<"b", "o", "l", "e", "t", "o", " ">>,
       <<"C", "a", "r", "t", "ã", "o", " ">>,
       <<"c", "a", "r", "t", "a", "o">>,
       <<"1", "2">>,
       <<",", "5", "0">>,
       <<".", "7", " ">>,
       <<"0", "1", "/", "0", "3", "/", "2", "0", "2", "4">>,
       <<"3", "1", "/", "0", "2", "/", "2", "0", "2", "4", " ">>,
       <<"2", "0", "2", "4", "-", "0", "3", "-", "0", "1">> >>

RECURSIVE Mensagens(_)
Mensagens(n) ==
    IF n = 0 THEN {<<>>}
    ELSE LET menores == Mensagens(n - 1)
         IN  menores \cup {m \o Pecas[k] : m \in menores, k \in 1..Len(Pecas)}

\* update.message.date values
Carimbos ==
    {[d |-> 5, m |-> 5, y |-> 2024, h |-> 10],
     [d |-> 1, m |-> 3, y |-> 2024, h |-> 23]}

Pendente == [feito |-> FALSE, r |-> ParseError]

-----------------------------------------------------------------------------
(* The spreadsheet                                                         *)

\* line 49: the header row
Cabecalho ==
    [hdr |-> TRUE, Usuario |-> "Usuário", num |-> FALSE, cents |-> 0,
     Categoria |-> <<>>, Data |-> NoDate, Forma |-> <<>>, Obs |-> <<>>]

\* the dash the source writes in an empty cell (lines 62-63)
Travessao == <<"-">>

\* round(valor, 2) in cents: exact for at most two fraction digits; beyond
\* that the binary float decides between the two neighbouring cents
Round2(v) ==
    LET f == v.frac \o <<"0", "0">>
        c == 100 * DigitsToInt(v.int) + DigitsToInt(SubSeq(f, 1, 2))
    IN  IF Len(v.frac) <= 2 THEN {c} ELSE {c, c + 1}

\* lines 57-64: the row salvar_dados appends
Linha(nome, cents, r) ==
    [hdr |-> FALSE, Usuario |-> nome, num |-> TRUE, cents |-> cents,
     Categoria |-> Title(r.categoria), Data |-> r.data,
     Forma |-> IF r.forma_pagamento # <<>> THEN Capitalize(r.forma_pagamento)
               ELSE Travessao,
     Obs |-> IF r.observacoes # <<>> THEN r.observacoes ELSE Travessao]

\* lines 48-49 without the emptiness test of line 48
conectar_sheets_sem_teste(s) == Append(s, Cabecalho)

\* lines 48-49: the sheet after conectar_sheets returned
conectar_sheets(s) == IF s = <<>> THEN <<Cabecalho>> ELSE s

\* sheet.get_all_records(): the rows below the first row
get_all_records(s) == IF Len(s) <= 1 THEN <<>> ELSE SubSeq(s, 2, Len(s))

\* float(d["Valor"]) raises for a cell that does not hold a number
FloatOk(d) == d.num

\* line 111: sum(float(d["Valor"]) for d in dados), defined when no float() raises
RECURSIVE SumValor(_)
SumValor(dados) ==
    IF dados = <<>> THEN 0
    ELSE SumValor(SubSeq(dados, 1, Len(dados) - 1)) + dados[Len(dados)].cents

\* line 127: categorias[cat] = categorias.get(cat, 0) + valor, on a dict that
\* keeps insertion order, held as a sequence of entries
DictAdd(categorias, cat, valor) ==
    IF \E i \in 1..Len(categorias) : categorias[i].cat = cat
    THEN [i \in 1..Len(categorias) |->
            IF categorias[i].cat = cat
            THEN [cat |-> cat, val |-> categorias[i].val + valor]
            ELSE categorias[i]]
    ELSE Append(categorias, [cat |-> cat, val |-> valor])

\* lines 123-127: the loop over dados, defined when no float() raises
RECURSIVE PorCategoria(_)
PorCategoria(dados) ==
    IF dados = <<>> THEN <<>>
    ELSE LET d == dados[Len(dados)]
         IN  DictAdd(PorCategoria(SubSeq(dados, 1, Len(dados) - 1)),
                     d.Categoria, d.cents)

-----------------------------------------------------------------------------
(* Inputs of the bot                                                       *)

MaxUpdates == 2

\* update.message.text of the text messages sent to the bot
Textos ==
    {Pecas[2] \o Pecas[8] \o Pecas[9],      \* "Mercado 12,50"
     Pecas[12]}                             \* "31/02/2024 "

\* the sheet as the bot finds it: empty, or with rows typed in by hand
PlanilhasIniciais ==
    {<<>>,
     <<Cabecalho,
       [hdr |-> FALSE, Usuario |-> "Ana", num |-> TRUE, cents |-> 100,
        Categoria |-> <<"m", "e", "r", "c", "a", "d", "o">>,
        Data |-> [d |-> 1, m |-> 3, y |-> 2024],
        Forma |-> Travessao, Obs |-> Travessao],
       [hdr |-> FALSE, Usuario |-> "Ana", num |-> TRUE, cents |-> 250,
        Categoria |-> <<"M", "e", "r", "c", "a", "d", "o">>,
        Data |-> [d |-> 2, m |-> 3, y |-> 2024],
        Forma |-> Travessao, Obs |-> Travessao]>>,
     <<Cabecalho,
       [hdr |-> FALSE, Usuario |-> "Ana", num |-> FALSE, cents |-> 0,
        Categoria |-> <<"M", "e", "r", "c", "a", "d", "o">>,
        Data |-> [d |-> 1, m |-> 3, y |-> 2024],
        Forma |-> Travessao, Obs |-> Travessao],
       [hdr |-> FALSE, Usuario |-> "Ana", num |-> TRUE, cents |-> 300,
        Categoria |-> <<"M", "e", "r", "c", "a", "d", "o">>,
        Data |-> [d |-> 1, m |-> 3, y |-> 2024],
        Forma |-> Travessao, Obs |-> Travessao]>>}

\* the updates Telegram posts: a text message, /total, /categoria, or a
\* command no handler is registered for
Updates ==
    {[tipo |-> "texto", text |-> t, date |-> c, nome |-> "Ana"] :
        t \in Textos, c \in {CHOOSE c \in Carimbos : c.d = 5}}
    \cup {[tipo |-> k, text |-> <<"/">>, date |-> c, nome |-> "Ana"] :
        k \in {"total", "categoria", "outro"},
        c \in {CHOOSE c \in Carimbos : c.d = 5}}

\* line 148: the call parse_mensagem(mensagem, data_mensagem), tabulated over
\* the texts and timestamps of Updates
Parsed == [t \in Textos, c \in Carimbos |-> parse_mensagem(t, c)]

WithId(u, id) ==
    [id |-> id, tipo |-> u.tipo, text |-> u.text, date |-> u.date,
     nome |-> u.nome]

\* a reply delivered to the user
Reply(u, tipo, total, categorias) ==
    [id |-> u.id, tipo |-> tipo, total |-> total, categorias |-> categorias]

\* what a handler did with one update
Entry(u, erro, tentativas, resposta, envio_erro) ==
    [id |-> u.id, tipo |-> u.tipo, erro |-> erro, tentativas |-> tentativas,
     resposta |-> resposta,
     falhou_envio |-> erro # "nenhuma" /\ ~envio_erro]

\* a handler whose try block has no except clause: the exception leaves the
\* handler and nothing is sent
RespostaSemExcept(sucesso, desculpa, erro, envio_erro) ==
    IF erro = "nenhuma" THEN sucesso ELSE "nenhuma"

\* the try/except of a handler (lines 109-116, 121-136, 143-162): the reply
\* the user gets, given the exception the try block ended with and whether
\* the reply_text call of the except block goes through
Resposta(sucesso, desculpa, erro, envio_erro) ==
    IF erro = "nenhuma" THEN sucesso
    ELSE IF envio_erro THEN desculpa
    ELSE "nenhuma"

-----------------------------------------------------------------------------
(* Operations                                                              *)

InitParse ==
    /\ mensagem \in Mensagens(MaxPecas)
    /\ data_mensagem \in Carimbos
    /\ resultado = Pendente
    /\ sheet = <<>>
    /\ update_queue = <<>>
    /\ outbox = <<>>
    /\ registro = <<>>
    /\ recebidos = 0
    /\ http = 0

\* lines 76-102: one call of parse_mensagem
ParseMensagem ==
    /\ ~resultado.feito
    /\ resultado' = [feito |-> TRUE, r |-> parse_mensagem(mensagem, data_mensagem)]
    /\ UNCHANGED <<mensagem, data_mensagem>>
    /\ UNCHANGED botVars

NextParse == ParseMensagem

SpecParse == InitParse /\ [][NextParse]_vars

Init ==
    /\ mensagem = <<>>
    /\ data_mensagem = CHOOSE c \in Carimbos : c.d = 5
    /\ resultado = Pendente
    /\ sheet \in PlanilhasIniciais
    /\ update_queue = <<>>
    /\ outbox = <<>>
    /\ registro = <<>>
    /\ recebidos = 0
    /\ http = 0

\* lines 180-189: POST /webhook with a payload de_json accepts (queued, 200)
\* or one it raises on (500)
webhook ==
    /\ recebidos < MaxUpdates
    /\ recebidos' = recebidos + 1
    /\ \/ \E u \in Updates :
            /\ update_queue' = Append(update_queue, WithId(u, recebidos + 1))
            /\ http' = 200
       \/ /\ http' = 500
          /\ UNCHANGED update_queue
    /\ UNCHANGED <<sheet, outbox, registro>>
    /\ UNCHANGED parseVars

\* where the calls made inside the try block of a handler can raise
FalhasSalvar == {"nenhuma", "conectar", "cabecalho", "append_row", "reply"}
FalhasLer == {"nenhuma", "conectar", "cabecalho", "get_all_records", "reply"}

\* append_row calls that salvar_dados makes for the expense row (line 57)
Tentativas(falha) == IF falha \in {"conectar", "cabecalho"} THEN 0 ELSE 1

\* lines 141-162
process_message ==
    /\ update_queue # <<>>
    /\ Head(update_queue).tipo = "texto"
    /\ LET u == Head(update_queue)
           r == Parsed[u.text, u.date]
       IN  \E falha \in FalhasSalvar, envio_erro \in BOOLEAN,
              cents \in Round2(r.valor) :
             /\ falha = "cabecalho" => sheet = <<>>
             /\ ~r.ok => falha = "nenhuma"
             /\ (r.ok /\ falha = "nenhuma") => envio_erro
             /\ LET erro == IF ~r.ok THEN "ValueError" ELSE falha
                    resposta == Resposta("confirmacao", "erro_registrar",
                                         erro, envio_erro)
                IN  /\ sheet' =
                          IF ~r.ok \/ falha \in {"conectar", "cabecalho"}
                          THEN sheet
                          ELSE IF falha = "append_row"
                          THEN conectar_sheets(sheet)
                          ELSE Append(conectar_sheets(sheet),
                                      Linha(u.nome, cents, r))
                    /\ outbox' =
                          IF resposta = "nenhuma" THEN outbox
                          ELSE Append(outbox, Reply(u, resposta, cents, <<>>))
                    /\ registro' =
                          Append(registro,
                                 Entry(u, erro,
                                       IF r.ok THEN Tentativas(falha) ELSE 0,
                                       resposta, envio_erro))
    /\ update_queue' = Tail(update_queue)
    /\ UNCHANGED <<recebidos, http>>
    /\ UNCHANGED parseVars

\* lines 67-71 inside the try of a command: the sheet afterwards
SheetAfterLer(falha) ==
    IF falha \in {"conectar", "cabecalho"} THEN sheet ELSE conectar_sheets(sheet)

\* the exception the try block of a command ends with, "nenhuma" if none
ErroLer(falha) ==
    IF falha \in {"conectar", "cabecalho", "get_all_records"} THEN falha
    ELSE IF \E i \in 1..Len(get_all_records(SheetAfterLer(falha))) :
              ~FloatOk(get_all_records(SheetAfterLer(falha))[i])
    THEN "ValueError"
    ELSE falha

\* lines 107-116
cmd_total ==
    /\ update_queue # <<>>
    /\ Head(update_queue).tipo = "total"
    /\ LET u == Head(update_queue)
       IN  \E falha \in FalhasLer, envio_erro \in BOOLEAN :
             /\ falha = "cabecalho" => sheet = <<>>
             /\ ErroLer(falha) = "nenhuma" => envio_erro
             /\ LET erro == ErroLer(falha)
                    dados == get_all_records(SheetAfterLer(falha))
                    resposta == Resposta("total", "erro_total", erro, envio_erro)
                IN  /\ sheet' = SheetAfterLer(falha)
                    /\ outbox' =
                          IF resposta = "nenhuma" THEN outbox
                          ELSE IF resposta = "total"
                          THEN Append(outbox, Reply(u, resposta, SumValor(dados), <<>>))
                          ELSE Append(outbox, Reply(u, resposta, 0, <<>>))
                    /\ registro' = Append(registro, Entry(u, erro, 0, resposta, envio_erro))
    /\ update_queue' = Tail(update_queue)
    /\ UNCHANGED <<recebidos, http>>
    /\ UNCHANGED parseVars

\* lines 119-136
cmd_categoria ==
    /\ update_queue # <<>>
    /\ Head(update_queue).tipo = "categoria"
    /\ LET u == Head(update_queue)
       IN  \E falha \in FalhasLer, envio_erro \in BOOLEAN :
             /\ falha = "cabecalho" => sheet = <<>>
             /\ ErroLer(falha) = "nenhuma" => envio_erro
             /\ LET erro == ErroLer(falha)
                    dados == get_all_records(SheetAfterLer(falha))
                    resposta == Resposta("categoria", "erro_categoria",
                                         erro, envio_erro)
                IN  /\ sheet' = SheetAfterLer(falha)
                    /\ outbox' =
                          IF resposta = "nenhuma" THEN outbox
                          ELSE IF resposta = "categoria"
                          THEN Append(outbox, Reply(u, resposta, 0, PorCategoria(dados)))
                          ELSE Append(outbox, Reply(u, resposta, 0, <<>>))
                    /\ registro' = Append(registro, Entry(u, erro, 0, resposta, envio_erro))
    /\ update_queue' = Tail(update_queue)
    /\ UNCHANGED <<recebidos, http>>
    /\ UNCHANGED parseVars

\* lines 172-174: an update that matches no registered handler is dropped
sem_handler ==
    /\ update_queue # <<>>
    /\ Head(update_queue).tipo = "outro"
    /\ update_queue' = Tail(update_queue)
    /\ UNCHANGED <<sheet, outbox, registro, recebidos, http>>
    /\ UNCHANGED parseVars

Next ==
    \/ webhook
    \/ process_message
    \/ cmd_total
    \/ cmd_categoria
    \/ sem_handler

Spec == Init /\ [][Next]_vars

\* the application takes every queued update in turn (app.start(), line 248)
FairSpec ==
    /\ Spec
    /\ WF_vars(process_message)
    /\ WF_vars(cmd_total)
    /\ WF_vars(cmd_categoria)
    /\ WF_vars(sem_handler)

-----------------------------------------------------------------------------
(* Properties of parse_mensagem, checked under SpecParse                   *)

Retornou == resultado.feito /\ resultado.r.ok

Min(S) == CHOOSE x \in S : \A y \in S : x <= y
Max(S) == CHOOSE x \in S : \A y \in S : x >= y

\* t is written as an integer, or as two integers joined by "." or ","
IsNumero(t) ==
    /\ t # <<>>
    /\ \E k \in 1..Len(t) :
          /\ \A i \in 1..k : IsDigit(t[i])
          /\ \/ k = Len(t)
             \/ /\ k + 2 <= Len(t)
                /\ t[k + 1] \in {".", ","}
                /\ \A i \in (k + 2)..Len(t) : IsDigit(t[i])

\* the first numeric token of s: it starts at the first digit and runs as far
\* as it still reads as a number
PrimeiroNumero(s) ==
    LET ini == Min({i \in 1..Len(s) : IsDigit(s[i])})
        fim == Max({e \in ini..Len(s) : IsNumero(SubSeq(s, ini, e))})
    IN  SubSeq(s, ini, fim)

\* the digit a numeric token has at 10^k (k < 0: in its fraction)
DigitoEscrito(t, k) ==
    LET seps == {i \in 1..Len(t) : ~IsDigit(t[i])}
        ponto == IF seps = {} THEN Len(t) + 1 ELSE Min(seps)
        pos == IF k >= 0 THEN ponto - 1 - k ELSE ponto - k
    IN  IF pos \in 1..Len(t) /\ pos # ponto THEN t[pos] ELSE "0"

\* the digit an amount has at 10^k
DigitoValor(v, k) ==
    IF k >= 0
    THEN (IF k < Len(v.int) THEN v.int[Len(v.int) - k] ELSE "0")
    ELSE (IF -k <= Len(v.frac) THEN v.frac[-k] ELSE "0")

\* the amount v is the number the token t writes, "," read as "."
MesmoDecimal(v, t) ==
    \A k \in (0 - Len(t) - 1)..(Len(t) + 1) :
        DigitoValor(v, k) = DigitoEscrito(t, k)

\* C1: the amount parse_mensagem returns is the value of the first numeric
\* token of the message (an integer or a decimal with "." or ","; "," read
\* as "."), and 0 when the message holds no digit.
C1_PrimeiroNumero ==
    Retornou =>
        IF \E i \in 1..Len(mensagem) : IsDigit(mensagem[i])
        THEN /\ MesmoDecimal(resultado.r.valor, PrimeiroNumero(mensagem))
             /\ Len(resultado.r.valor.int) + Len(resultado.r.valor.frac)
                    <= Len(PrimeiroNumero(mensagem))
        ELSE resultado.r.valor = Zero

\* a message with a comma decimal followed by a second number: 12,50 is read
C1_Witness ==
    /\ Retornou
    /\ Len(FindallNum(mensagem, 1)) >= 2
    /\ FindallNum(mensagem, 1)[1] = <<"1", "2", ",", "5", "0">>
    /\ resultado.r.valor = [int |-> <<"1", "2">>, frac |-> <<"5">>]

\* vocabulary entry k occurs in s, letter case ignored
Ocorre(k, s) ==
    \E i \in 1..Len(s) :
        /\ i + Len(FormasPagamento[k]) - 1 <= Len(s)
        /\ \A j \in 1..Len(FormasPagamento[k]) :
              LowerChar(s[i + j - 1]) = FormasPagamento[k][j]

\* C7: the payment method is the first entry of the ordered vocabulary that
\* occurs in the message as a case-insensitive substring, and is empty when
\* no entry occurs.
C7_PrimeiraForma ==
    Retornou =>
        LET hits == {k \in 1..Len(FormasPagamento) : Ocorre(k, mensagem)}
        IN  IF hits = {} THEN resultado.r.forma_pagamento = <<>>
            ELSE resultado.r.forma_pagamento = FormasPagamento[Min(hits)]

\* "boleto" is written before "PIX" in the message; pix, the earlier
\* vocabulary entry, is returned
C7_Witness ==
    /\ Retornou
    /\ Ocorre(4, mensagem)
    /\ Ocorre(7, mensagem)
    /\ mensagem[1] = "b"
    /\ resultado.r.forma_pagamento = <<"p", "i", "x">>

\* C6: the category is the first alphabetic word of the message that is not
\* equal, ignoring case, to the matched payment method, and "Geral" when no
\* such word remains.
C6_PrimeiraPalavra ==
    Retornou =>
        LET Outra(p) == Lower(p) # Lower(resultado.r.forma_pagamento)
            restantes == SelectSeq(FindallWords(mensagem, 1), Outra)
        IN  resultado.r.categoria =
                IF restantes # <<>> THEN restantes[1] ELSE Geral

\* r"\d{4}-\d{2}-\d{2}" matches at position i
IsoMatchAt(s, i) ==
    /\ i + 9 <= Len(s)
    /\ \A j \in {0, 1, 2, 3, 5, 6, 8, 9} : IsDigit(s[i + j])
    /\ s[i + 4] = "-"
    /\ s[i + 7] = "-"

IsoDate(t) ==
    [d |-> DigitsToInt(SubSeq(t, 9, 10)),
     m |-> DigitsToInt(SubSeq(t, 6, 7)),
     y |-> DigitsToInt(SubSeq(t, 1, 4))]

\* C8: the date is the one written in the message as DD/MM/YYYY or as
\* YYYY-MM-DD, whatever the fallback timestamp, and the date of the fallback
\* timestamp only when the message holds no such token.
C8_DataEscrita ==
    Retornou =>
        LET br == {i \in 1..Len(mensagem) : DateMatchAt(mensagem, i)}
            iso == {i \in 1..Len(mensagem) : IsoMatchAt(mensagem, i)}
        IN  IF br # {}
            THEN resultado.r.data = Strptime(SubSeq(mensagem, Min(br), Min(br) + 9))
            ELSE IF iso # {}
            THEN resultado.r.data = IsoDate(SubSeq(mensagem, Min(iso), Min(iso) + 9))
            ELSE resultado.r.data = DateOf(data_mensagem)

-----------------------------------------------------------------------------
(* Properties of the bot, checked under Spec and FairSpec                  *)

Last(q) == q[Len(q)]

\* this step ran a handler
Tratou == Len(registro') = Len(registro) + 1

\* this step delivered a reply of the given kind
Respondeu(tipo) ==
    /\ Len(outbox') = Len(outbox) + 1
    /\ Last(outbox').tipo = tipo

\* the rows this step added to the sheet
Novas == (Len(sheet) + 1)..Len(sheet')

\* the stored rows whose amount is a number
Numericas(dados) == SelectSeq(dados, FloatOk)

\* C2: a stored row whose amount is not a number is skipped by /total and
\* /categoria, and the summary of the remaining rows is still reported.
C2_IgnoraNaoNumericas ==
    [][(Tratou /\ Last(registro').erro \in {"nenhuma", "ValueError"}) =>
          /\ Last(registro').tipo = "total" =>
                /\ Respondeu("total")
                /\ Last(outbox').total =
                      SumValor(Numericas(get_all_records(sheet')))
          /\ Last(registro').tipo = "categoria" =>
                /\ Respondeu("categoria")
                /\ Last(outbox').categorias =
                      PorCategoria(Numericas(get_all_records(sheet')))]_vars

\* C3: when append_row fails, the append is tried more than once before the
\* user gets the registration-failure reply, and no expense row is stored
\* for that message.
C3_TentaDeNovo ==
    [][(Tratou /\ Last(registro').erro = "append_row"
               /\ Respondeu("erro_registrar")) =>
          /\ Last(registro').tentativas > 1
          /\ \A i \in Novas : sheet'[i].hdr]_vars

\* C10: a message answered with the registration-failure reply has no
\* expense row in the store.
C10_ErroSemLinha ==
    [][Respondeu("erro_registrar") => \A i \in Novas : sheet'[i].hdr]_vars

\* records with the category normalized for grouping and display
Normalizadas(dados) ==
    [i \in 1..Len(dados) |->
        [dados[i] EXCEPT !.Categoria = Title(dados[i].Categoria)]]

\* C5: /total reports the sum of all amounts; /categoria reports, per
\* normalized (title-cased) category, the sum of its amounts, the groups in
\* first-seen order; no records give total 0 and no group.
C5_TotaisPorCategoria ==
    [][/\ Respondeu("total") =>
            Last(outbox').total = SumValor(get_all_records(sheet'))
       /\ Respondeu("categoria") =>
            Last(outbox').categorias =
                PorCategoria(Normalizadas(get_all_records(sheet')))]_vars

\* C9: the sheet only grows at its end; a header is written only into an
\* empty sheet, so at most once; a step adds at most one expense row, only
\* when handling a text message, and exactly one when it confirms.
C9_SomenteAcrescenta ==
    [][/\ Len(sheet') >= Len(sheet)
       /\ SubSeq(sheet', 1, Len(sheet)) = sheet
       /\ \A i \in Novas : sheet'[i].hdr => (sheet = <<>> /\ i = 1)
       /\ Cardinality({i \in 1..Len(sheet') : sheet'[i].hdr}) <= 1
       /\ LET gastos == {i \in Novas : ~sheet'[i].hdr}
          IN  /\ Cardinality(gastos) <= 1
              /\ gastos # {} => (Tratou /\ Last(registro').tipo = "texto")
              /\ Respondeu("confirmacao") => Cardinality(gastos) = 1]_vars

\* two messages confirmed on a sheet that was empty: header and two rows
C9_Witness ==
    /\ Len(sheet) = 3
    /\ sheet[1] = Cabecalho
    /\ Len(outbox) = 2
    /\ \A i \in 1..2 : outbox[i].tipo = "confirmacao"

\* C4: every update handled by process_message, cmd_total or cmd_categoria
\* ends with a reply unless the sending of the error reply itself failed,
\* whatever failed in parsing, in the store or in the date conversion; and
\* every queued update of these kinds is eventually handled, also after the
\* handling of an earlier update failed.
C4_SempreResponde ==
    /\ [](\A i \in 1..Len(registro) :
            /\ registro[i].resposta = "nenhuma" => registro[i].falhou_envio
            /\ registro[i].resposta # "nenhuma" =>
                  \E j \in 1..Len(outbox) : outbox[j].id = registro[i].id)
    /\ \A id \in 1..MaxUpdates :
          (\E i \in 1..Len(update_queue) :
              update_queue[i].id = id /\ update_queue[i].tipo # "outro")
          ~> (\E j \in 1..Len(registro) : registro[j].id = id)

\* a message whose parsing failed was answered, and the next update was
\* handled and answered too
C4_Witness ==
    /\ Len(registro) = 2
    /\ registro[1].erro = "ValueError"
    /\ registro[1].resposta = "erro_registrar"
    /\ registro[2].resposta \in {"confirmacao", "total", "categoria"}
    /\ Len(outbox) = 2

====
